---- MODULE Spec2Model ----
(***************************************************************************)
(* Makersbnb: the express server (two revisions of app.js: src/app.js      *)
(* lines 19-185 and src/unnamed/part_005), its session store and its two   *)
(* mongo collections, as a state machine.  The revisions before these      *)
(* (src/unnamed/part_002, part_004, part_006) are modelled apart, in        *)
(* SpecOlder: what is stated of Spec, SpecTwo and SpecPeople is stated of   *)
(* the two latest revisions only.                                          *)
(*                                                                         *)
(* One step is either the synchronous part of a route handler (from the    *)
(* arrival of the request to the return of the handler function) or the    *)
(* completion of one database / session-store operation together with its  *)
(* callback.  The variable last describes the step that was just taken.   *)
(*                                                                         *)
(* The revision is fixed when the server starts (rev).  Lines 1-17 of       *)
(* src/app.js are an older revision with a single static GET / and no      *)
(* state; it is not modelled.  Every database call, and the destroy of the  *)
(* session store, may report an error (ok = FALSE).                        *)
(*                                                                         *)
(* The browser-side prototype (src/app/js/advert.js, the List and the      *)
(* interface scripts src/public/js/interface.js, src/src/interface.js and   *)
(* the one quoted in src/README.md)                                        *)
(* has its own variables and its own specifications, SpecClient and        *)
(* SpecPage, further down; it never talks to the server.                   *)
(*                                                                         *)
(* Console output is not part of the state: a callback that only logs is   *)
(* a step that completes its operation and changes nothing else.           *)
(***************************************************************************)
EXTENDS Naturals, Sequences, FiniteSets, TLC

VARIABLES
  rev,       \* which revision of the server is running
  sessions,  \* the session store: browser -> session contents (req.session)
  sess,      \* the module-level variable sess (the browser whose session it references)
  users,     \* collection users, in insertion order
  adverts,   \* collection adverts, in insertion order
  pending,   \* database / store operations issued and not yet completed
  last,      \* the step just taken: the request, and the response if one was sent
  nreq,      \* number of requests received so far
  crashed,   \* an uncaught exception in a callback ended the process
  objs,      \* the Advert objects constructed in a page (src/app/js/advert.js)
  given,     \* the name each of them was constructed with
  list,      \* the List of the page: references (indices into objs), in order
  added,     \* the arguments of the add() calls made on the List, in call order
  page,      \* which revision of the interface script the page runs, if any
  field,     \* the text in the advert-name input of the page
  html,      \* the markup in the listing container of the page
  click      \* the last thing done on the page, and whether its handler threw

\* the objects of the browser-side script; the server never touches them
client == <<objs, given, list, added, page, field, html, click>>

vars == <<rev, sessions, sess, users, adverts, pending, last, nreq, crashed, client>>

----------------------------------------------------------------------------
(* Bounds and input sets *)

MaxReqs == 3
MaxObjs == 2
MaxList == 3

Revisions == {"app.js", "part_005"}
Browsers == {"b1"}

\* The JavaScript value undefined (an absent form field or session field).
UNDEF == "<undefined>"
\* Nobody has made a request yet.
NOBODY == "<none>"

Emails == {"", "a@a", "b@b"}
Usernames == {"ua"}
Names == {"Ann"}
SignupPasswords == {"p"}
Confirmations == {"p", "q"}
LoginPasswords == {"", "p", "q"}
AdvertNames == {"buckingham"}
ClientNames == {"Cosy flat", "Loft", ""}
Descriptions == {"cosy"}
Prices == {"100"}
MalformedId == "zz"

SignupBodies ==
  [name : Names, username : Usernames, email : Emails,
   password : SignupPasswords, passwordConfirmation : Confirmations]
LoginBodies == [email : Emails, password : LoginPasswords]
AdvertBodies ==
  [advertName : AdvertNames, advertDescription : Descriptions, advertPrice : Prices]
NoBody == [none |-> TRUE]

----------------------------------------------------------------------------
(* JavaScript and library helpers *)

\* if (x): undefined and the empty string are falsy
Truthy(v) == v # UNDEF /\ v # ""

EmptySession == [email |-> UNDEF, username |-> UNDEF, password |-> UNDEF]

HexDigit == <<"0", "1", "2", "3", "4", "5", "6", "7", "8", "9",
              "a", "b", "c", "d", "e", "f">>

\* ObjectId.toHexString(): an identifier (here a natural) as a hex string
ToHexString(n) == "5a0" \o HexDigit[(n \div 16) + 1] \o HexDigit[(n % 16) + 1]

\* The identifier the store assigns to the next inserted document.
NextId == Len(users) + Len(adverts) + 1

\* An identifier generated by ObjectId() itself: equal to no stored one.
FreshId == 0

WellFormedIds == {ToHexString(n) : n \in 1..(MaxReqs + 2)}

\* mongojs.ObjectId(v) throws on a value that is neither absent nor 24 hex digits
ObjectIdThrows(v) == v # UNDEF /\ v \notin WellFormedIds

\* mongojs.ObjectId(v): undefined generates a new identifier, a hex string is parsed
ObjectId(v) ==
  IF v = UNDEF THEN FreshId
  ELSE CHOOSE n \in 1..(MaxReqs + 2) : ToHexString(n) = v

BookValues == {ToHexString(n) : n \in 1..NextId} \cup {UNDEF, MalformedId}
BookBodies == [bookBtn : BookValues]

Redirect(path) == [kind |-> "redirect", to |-> path]
Render(view, data) == [kind |-> "render", view |-> view, data |-> data]
ServerError == [kind |-> "error", status |-> "500"]
NoResp == [kind |-> "none"]

\* what a step did: ev is "handler" (the synchronous part of a route handler),
\* "callback" (a database call completed and its callback ran), "db" (a database
\* call without callback completed) or "exception" (a callback threw); err tells
\* whether the completed database call reported an error
Event(ev, rid, b, route, body, resp) ==
  [ev |-> ev, rid |-> rid, browser |-> b, route |-> route, body |-> body,
   resp |-> resp, err |-> FALSE]

Done(ev, o, ok, route, body, resp) ==
  [ev |-> ev, rid |-> o.rid, browser |-> o.browser, route |-> route, body |-> body,
   resp |-> resp, err |-> ~ok]

\* a query {email: e}: undefined is sent as null and matches a missing email
MatchEmail(doc, e) == doc.email = e

\* db.users.findOne({email: e}): the first matching document, as a sequence of
\* length 0 (null) or 1
FindOneUser(e) ==
  LET hits == {i \in 1..Len(users) : MatchEmail(users[i], e)}
  IN  IF hits = {} THEN <<>>
      ELSE <<users[CHOOSE i \in hits : \A j \in hits : i <= j]>>

\* no interface script is running (the Jasmine specs, or no page at all)
NoPage == "<no page>"

\* the browser side when the script starts: new List(), an empty name field
\* and an empty listing container
ClientInit(pg) ==
  /\ objs = <<>>
  /\ given = <<>>
  /\ list = <<>>
  /\ added = <<>>
  /\ page = pg
  /\ field = ""
  /\ html = ""
  /\ click = [ctl |-> "load", threw |-> FALSE]

----------------------------------------------------------------------------
Init ==
  /\ rev \in Revisions
  /\ sessions = [b \in Browsers |-> EmptySession]
  /\ sess = NOBODY
  /\ users = <<>>
  /\ adverts = <<>>
  /\ pending = {}
  /\ last = Event("start", 0, NOBODY, "", NoBody, NoResp)
  /\ nreq = 0
  /\ crashed = FALSE
  /\ ClientInit(NoPage)

\* the server takes a request: the process is alive (and the run is within its bound)
AcceptingAny == ~crashed /\ nreq < MaxReqs
Accepting(r) == rev = r /\ AcceptingAny

----------------------------------------------------------------------------
(* src/app.js, lines 19-185 *)

\* app.get('/')
GetRoot(b) ==
  /\ Accepting("app.js")
  /\ nreq' = nreq + 1
  /\ sess' = b
  /\ pending' = pending \cup
       { [op |-> "users.find", rid |-> nreq + 1, browser |-> b,
          query |-> [email |-> "a@a"]],
         [op |-> "adverts.find", rid |-> nreq + 1, browser |-> b] }
  /\ last' = Event("handler", nreq + 1, b, "GET /", NoBody, NoResp)
  /\ UNCHANGED <<rev, sessions, users, adverts, crashed>>

\* the document POST /users/new builds
NewUser(body) ==
  [username |-> body.username, email |-> body.email, password |-> body.password]

\* a signup that enforces unique emails: it refuses an email a stored user has
SignupAcceptedUnique(s, body) == Truthy(s.email) /\ FindOneUser(body.email) = <<>>

\* which branch POST /users/new takes
SignupAccepted(s, body) == Truthy(s.email)

\* app.post('/users/new'); the two lookups are two calls even when the form
\* has the same text as username and as email (from tells them apart)
PostUsersNew(b, body) ==
  LET s == [sessions[b] EXCEPT !.email = body.email, !.username = body.username]
      rid == nreq + 1
  IN
  /\ Accepting("app.js")
  /\ nreq' = rid
  /\ sess' = b
  /\ sessions' = [sessions EXCEPT ![b] = s]
  /\ IF SignupAccepted(s, body)
     THEN /\ pending' = pending \cup
               { [op |-> "users.findOne", rid |-> rid, browser |-> b,
                  query |-> [email |-> body.email], from |-> "email"],
                 [op |-> "users.findOne", rid |-> rid, browser |-> b,
                  query |-> [email |-> body.username], from |-> "username"],
                 [op |-> "users.insert", rid |-> rid, browser |-> b, doc |-> NewUser(body)] }
          /\ last' = Event("handler", rid, b, "POST /users/new", body, Redirect("/"))
     ELSE /\ pending' = pending
          /\ last' = Event("handler", rid, b, "POST /users/new", body, Redirect("/user/new"))
  /\ UNCHANGED <<rev, users, adverts, crashed>>

\* the redirect POST /sessions/new answers with
LoginRedirect(s) ==
  IF Truthy(s.email)
  THEN IF Truthy(s.password) THEN "/" ELSE "/session/new"
  ELSE "/user/new"

\* the session after POST /sessions/new
LoginSession(s, body) ==
  [s EXCEPT !.email = body.email, !.password = body.password]

\* app.post('/sessions/new'), the same code in both revisions
PostSessionsNew(b, body) ==
  LET s == LoginSession(sessions[b], body)
  IN
  /\ AcceptingAny
  /\ nreq' = nreq + 1
  /\ sess' = b
  /\ sessions' = [sessions EXCEPT ![b] = s]
  /\ last' = Event("handler", nreq + 1, b, "POST /sessions/new", body,
                   Redirect(LoginRedirect(s)))
  /\ UNCHANGED <<rev, users, adverts, pending, crashed>>

\* the page GET / renders has a book button for identifier id: an advert with
\* that identifier is stored
IsListed(id) == \E i \in 1..Len(adverts) : adverts[i]._id = id

\* app.post('/book'): the handler, the same code in both revisions; the update
\* it issues remembers (listed) whether the identifier was that of a stored
\* advert when the request arrived
PostBook(b, body) ==
  /\ AcceptingAny
  /\ nreq' = nreq + 1
  /\ IF ObjectIdThrows(body.bookBtn)
     THEN /\ pending' = pending
          /\ last' = Event("handler", nreq + 1, b, "POST /book", body, ServerError)
     ELSE /\ pending' = pending \cup
               { [op |-> "adverts.update", rid |-> nreq + 1, browser |-> b,
                  id |-> ObjectId(body.bookBtn),
                  listed |-> IsListed(ObjectId(body.bookBtn))] }
          /\ last' = Event("handler", nreq + 1, b, "POST /book", body, Redirect("/"))
  /\ UNCHANGED <<rev, sessions, sess, users, adverts, crashed>>

\* a faulty handler: it does not take its own request's session (sess =
\* req.session is missing) and reads the email through sess as the previous
\* request left it; with sess still undefined, sess.email throws in the handler
PostNewAdvertSharedSess(b, body) ==
  /\ Accepting("app.js")
  /\ nreq' = nreq + 1
  /\ sess' = sess
  /\ IF sess = NOBODY
     THEN /\ pending' = pending
          /\ last' = Event("handler", nreq + 1, b, "POST /new-advert", body, ServerError)
     ELSE /\ pending' = pending \cup
               { [op |-> "users.findOne.owner", rid |-> nreq + 1, browser |-> b,
                  email |-> sessions[sess].email, body |-> body] }
          /\ last' = Event("handler", nreq + 1, b, "POST /new-advert", body, NoResp)
  /\ UNCHANGED <<rev, sessions, users, adverts, crashed>>

\* app.post('/new-advert'): the handler
PostNewAdvert(b, body) ==
  /\ Accepting("app.js")
  /\ nreq' = nreq + 1
  /\ sess' = b
  /\ pending' = pending \cup
       { [op |-> "users.findOne.owner", rid |-> nreq + 1, browser |-> b,
          email |-> sessions[b].email, body |-> body] }
  /\ last' = Event("handler", nreq + 1, b, "POST /new-advert", body, NoResp)
  /\ UNCHANGED <<rev, sessions, users, adverts, crashed>>


\* a document as the store keeps it: with the identifier the store assigned
Stored(doc) == [_id |-> NextId] @@ doc

\* one database operation completes: it leaves the set of pending operations
Complete(o) == o \in pending /\ ~crashed

\* the data GET / hands to the index template
IndexData(ok) == [adverts |-> IF ok THEN adverts ELSE <<>>, advertsDefined |-> ok]

\* callback of db.adverts.find in GET /: renders index
AdvertsFindDone(o, ok) ==
  /\ Complete(o) /\ o.op = "adverts.find" /\ rev = "app.js"
  /\ pending' = pending \ {o}
  /\ last' = Done("callback", o, ok, "GET /", NoBody, Render("index", IndexData(ok)))
  /\ UNCHANGED <<rev, sessions, sess, users, adverts, nreq, crashed>>

\* callback of db.users.find in GET /: it logs the error or the documents
UsersFindDone(o, ok) ==
  /\ Complete(o) /\ o.op = "users.find"
  /\ pending' = pending \ {o}
  /\ last' = Done("callback", o, ok, "GET /", NoBody, NoResp)
  /\ UNCHANGED <<rev, sessions, sess, users, adverts, nreq, crashed>>

\* callback of either db.users.findOne in POST /users/new: it logs the error
\* or the user found
UsersFindOneDone(o, ok) ==
  /\ Complete(o) /\ o.op = "users.findOne"
  /\ pending' = pending \ {o}
  /\ last' = Done("callback", o, ok, "POST /users/new", NoBody, NoResp)
  /\ UNCHANGED <<rev, sessions, sess, users, adverts, nreq, crashed>>

\* db.users.insert(newUser, cb) completes; the callback only logs an error
UsersInsertDone(o, ok) ==
  /\ Complete(o) /\ o.op = "users.insert"
  /\ pending' = pending \ {o}
  /\ users' = IF ok THEN Append(users, Stored(o.doc)) ELSE users
  /\ last' = Done("callback", o, ok, "POST /users/new", NoBody, NoResp)
  /\ UNCHANGED <<rev, sessions, sess, adverts, nreq, crashed>>

\* a faulty update: it ignores the selector and books every advert
BookUpdateAll(ads, id) ==
  [i \in DOMAIN ads |-> [ads[i] EXCEPT !.booked = TRUE]]

\* a faulty update: it flips booked instead of setting it
BookUpdateToggle(ads, id) ==
  [i \in DOMAIN ads |->
     IF ads[i]._id = id THEN [ads[i] EXCEPT !.booked = ~ads[i].booked] ELSE ads[i]]

\* the effect of update({_id: id}, {$set: {booked: true}}) on the collection
BookUpdate(ads, id) ==
  [i \in DOMAIN ads |->
     IF ads[i]._id = id THEN [ads[i] EXCEPT !.booked = TRUE] ELSE ads[i]]

\* db.adverts.update(...) of POST /book completes; it was given no callback
AdvertsUpdateDone(o, ok) ==
  /\ Complete(o) /\ o.op = "adverts.update"
  /\ pending' = pending \ {o}
  /\ adverts' = IF ok THEN BookUpdate(adverts, o.id) ELSE adverts
  /\ last' = Done("db", o, ok, "POST /book", NoBody, NoResp)
  /\ UNCHANGED <<rev, sessions, sess, users, nreq, crashed>>

\* the document POST /new-advert builds for the user it found
NewAd(user, body) ==
  [userID |-> ToHexString(user._id), name |-> body.advertName, booked |-> FALSE]

\* callback of db.users.findOne in POST /new-advert.  With an error or with no
\* matching user, foundUser is undefined or null and user._id throws a TypeError
\* that nothing catches.
OwnerFindOneDone(o, ok) ==
  LET found == IF ok THEN FindOneUser(o.email) ELSE <<>>
  IN
  /\ Complete(o) /\ o.op = "users.findOne.owner"
  /\ IF found = <<>>
     THEN /\ pending' = pending \ {o}
          /\ crashed' = TRUE
          /\ last' = Done("exception", o, ok, "POST /new-advert", o.body, NoResp)
     ELSE /\ pending' = (pending \ {o}) \cup
               { [op |-> "adverts.insert", rid |-> o.rid, browser |-> o.browser,
                  doc |-> NewAd(found[1], o.body), body |-> o.body,
                  email |-> o.email, user |-> found[1]] }
          /\ crashed' = crashed
          /\ last' = Done("callback", o, ok, "POST /new-advert", o.body, NoResp)
  /\ UNCHANGED <<rev, sessions, sess, users, adverts, nreq>>

\* db.adverts.insert(newAd, cb) completes; the callback redirects to /
AdvertsInsertDone(o, ok) ==
  /\ Complete(o) /\ o.op = "adverts.insert"
  /\ pending' = pending \ {o}
  /\ adverts' = IF ok THEN Append(adverts, Stored(o.doc)) ELSE adverts
  /\ last' = Done("callback", o, ok, "POST /new-advert", o.body, Redirect("/"))
  /\ UNCHANGED <<rev, sessions, sess, users, nreq, crashed>>

----------------------------------------------------------------------------
(* src/unnamed/part_005 *)

\* the welcome string GET / computes from the session
WelcomeMessage(s) ==
  "Welcome" \o (IF Truthy(s.email) THEN ", " \o s.email ELSE ", please log in.")

\* the session as GET / leaves it: var email = 'james'; sess.email = email
RootSession(s) == [s EXCEPT !.email = "james"]

\* app.get('/')
GetRootP5(b) ==
  LET s == RootSession(sessions[b])
  IN
  /\ Accepting("part_005")
  /\ nreq' = nreq + 1
  /\ sess' = b
  /\ sessions' = [sessions EXCEPT ![b] = s]
  /\ pending' = pending \cup
       { [op |-> "adverts.find", rid |-> nreq + 1, browser |-> b,
          message |-> WelcomeMessage(s)] }
  /\ last' = Event("handler", nreq + 1, b, "GET /", NoBody, NoResp)
  /\ UNCHANGED <<rev, users, adverts, crashed>>

\* the data GET / hands to the index template
IndexDataP5(ok, message) ==
  [adverts |-> IF ok THEN adverts ELSE <<>>, advertsDefined |-> ok,
   welcomeMessage |-> message]

\* callback of db.adverts.find in GET /: renders index
AdvertsFindDoneP5(o, ok) ==
  /\ Complete(o) /\ o.op = "adverts.find" /\ rev = "part_005"
  /\ pending' = pending \ {o}
  /\ last' = Done("callback", o, ok, "GET /", NoBody,
                  Render("index", IndexDataP5(ok, o.message)))
  /\ UNCHANGED <<rev, sessions, sess, users, adverts, nreq, crashed>>

\* app.post('/users/new'): no database call in this revision
PostUsersNewP5(b, body) ==
  LET s == [sessions[b] EXCEPT !.email = body.email, !.username = body.username]
  IN
  /\ Accepting("part_005")
  /\ nreq' = nreq + 1
  /\ sess' = b
  /\ sessions' = [sessions EXCEPT ![b] = s]
  /\ last' = Event("handler", nreq + 1, b, "POST /users/new", body,
                   Redirect(IF Truthy(s.email) THEN "/" ELSE "/user/new"))
  /\ UNCHANGED <<rev, users, adverts, pending, crashed>>

\* app.delete('/sessions'): sess.destroy removes the session from the store at
\* once; its callback runs later
DeleteSessions(b) ==
  /\ Accepting("part_005")
  /\ nreq' = nreq + 1
  /\ sess' = b
  /\ sessions' = [sessions EXCEPT ![b] = EmptySession]
  /\ pending' = pending \cup
       { [op |-> "session.destroy", rid |-> nreq + 1, browser |-> b] }
  /\ last' = Event("handler", nreq + 1, b, "DELETE /sessions", NoBody, NoResp)
  /\ UNCHANGED <<rev, users, adverts, crashed>>

\* callback of sess.destroy: with an error it only logs and sends nothing,
\* otherwise it redirects
DestroyDone(o, ok) ==
  /\ Complete(o) /\ o.op = "session.destroy"
  /\ pending' = pending \ {o}
  /\ last' = Done("callback", o, ok, "DELETE /sessions", NoBody,
                  IF ok THEN Redirect("/") ELSE NoResp)
  /\ UNCHANGED <<rev, sessions, sess, users, adverts, nreq, crashed>>

\* the document POST /new-advert builds
NewAdP5(body) ==
  [name |-> body.advertName, description |-> body.advertDescription,
   price |-> body.advertPrice, booked |-> FALSE]

\* app.post('/new-advert'): the handler
PostNewAdvertP5(b, body) ==
  /\ Accepting("part_005")
  /\ nreq' = nreq + 1
  /\ pending' = pending \cup
       { [op |-> "adverts.insert", rid |-> nreq + 1, browser |-> b,
          doc |-> NewAdP5(body), body |-> body] }
  /\ last' = Event("handler", nreq + 1, b, "POST /new-advert", body, NoResp)
  /\ UNCHANGED <<rev, sessions, sess, users, adverts, crashed>>

----------------------------------------------------------------------------
Next ==
  \/ \E b \in DOMAIN sessions : GetRoot(b) /\ UNCHANGED client
  \/ \E b \in DOMAIN sessions, body \in SignupBodies : PostUsersNew(b, body) /\ UNCHANGED client
  \/ \E b \in DOMAIN sessions, body \in LoginBodies : PostSessionsNew(b, body) /\ UNCHANGED client
  \/ \E b \in DOMAIN sessions, body \in BookBodies : PostBook(b, body) /\ UNCHANGED client
  \/ \E b \in DOMAIN sessions, body \in AdvertBodies : PostNewAdvert(b, body) /\ UNCHANGED client
  \/ \E o \in pending, ok \in BOOLEAN : AdvertsFindDone(o, ok) /\ UNCHANGED client
  \/ \E o \in pending, ok \in BOOLEAN : UsersFindDone(o, ok) /\ UNCHANGED client
  \/ \E o \in pending, ok \in BOOLEAN : UsersFindOneDone(o, ok) /\ UNCHANGED client
  \/ \E o \in pending, ok \in BOOLEAN : UsersInsertDone(o, ok) /\ UNCHANGED client
  \/ \E o \in pending, ok \in BOOLEAN : AdvertsUpdateDone(o, ok) /\ UNCHANGED client
  \/ \E o \in pending, ok \in BOOLEAN : OwnerFindOneDone(o, ok) /\ UNCHANGED client
  \/ \E o \in pending, ok \in BOOLEAN : AdvertsInsertDone(o, ok) /\ UNCHANGED client
  \/ \E b \in DOMAIN sessions : GetRootP5(b) /\ UNCHANGED client
  \/ \E o \in pending, ok \in BOOLEAN : AdvertsFindDoneP5(o, ok) /\ UNCHANGED client
  \/ \E b \in DOMAIN sessions, body \in SignupBodies : PostUsersNewP5(b, body) /\ UNCHANGED client
  \/ \E b \in DOMAIN sessions : DeleteSessions(b) /\ UNCHANGED client
  \/ \E o \in pending, ok \in BOOLEAN : DestroyDone(o, ok) /\ UNCHANGED client
  \/ \E b \in DOMAIN sessions, body \in AdvertBodies : PostNewAdvertP5(b, body) /\ UNCHANGED client

Spec == Init /\ [][Next]_vars

----------------------------------------------------------------------------
(* Two browsers, each with its own session, served by the same process.     *)
(* The forms are filled in properly (an email is given, the confirmation    *)
(* repeats the password, the login password is the one of the signup) and   *)
(* the book button carries a well-formed identifier.  The reads of GET /    *)
(* and the insert of the signup succeed; the booking update, the owner      *)
(* lookup and the advert insert may report an error.                        *)

TwoBrowsers == {"b1", "b2"}

TwoSignupBodies ==
  {x \in SignupBodies : Truthy(x.email) /\ x.passwordConfirmation = x.password}
TwoLoginBodies ==
  {x \in LoginBodies : Truthy(x.email) /\ x.password \in SignupPasswords}
TwoBookBodies == {x \in BookBodies : x.bookBtn \in WellFormedIds}

InitTwo ==
  /\ rev \in Revisions
  /\ sessions = [b \in TwoBrowsers |-> EmptySession]
  /\ sess = NOBODY
  /\ users = <<>>
  /\ adverts = <<>>
  /\ pending = {}
  /\ last = Event("start", 0, NOBODY, "", NoBody, NoResp)
  /\ nreq = 0
  /\ crashed = FALSE
  /\ ClientInit(NoPage)

NextTwo ==
  \/ \E b \in DOMAIN sessions : GetRoot(b) /\ UNCHANGED client
  \/ \E b \in DOMAIN sessions, body \in TwoSignupBodies : PostUsersNew(b, body) /\ UNCHANGED client
  \/ \E b \in DOMAIN sessions, body \in TwoLoginBodies : PostSessionsNew(b, body) /\ UNCHANGED client
  \/ \E b \in DOMAIN sessions, body \in TwoBookBodies : PostBook(b, body) /\ UNCHANGED client
  \/ \E b \in DOMAIN sessions, body \in AdvertBodies : PostNewAdvert(b, body) /\ UNCHANGED client
  \/ \E o \in pending : AdvertsFindDone(o, TRUE) /\ UNCHANGED client
  \/ \E o \in pending : UsersFindDone(o, TRUE) /\ UNCHANGED client
  \/ \E o \in pending : UsersFindOneDone(o, TRUE) /\ UNCHANGED client
  \/ \E o \in pending : UsersInsertDone(o, TRUE) /\ UNCHANGED client
  \/ \E o \in pending, ok \in BOOLEAN : AdvertsUpdateDone(o, ok) /\ UNCHANGED client
  \/ \E o \in pending, ok \in BOOLEAN : OwnerFindOneDone(o, ok) /\ UNCHANGED client
  \/ \E o \in pending, ok \in BOOLEAN : AdvertsInsertDone(o, ok) /\ UNCHANGED client
  \/ \E b \in DOMAIN sessions : GetRootP5(b) /\ UNCHANGED client
  \/ \E o \in pending : AdvertsFindDoneP5(o, TRUE) /\ UNCHANGED client
  \/ \E b \in DOMAIN sessions, body \in TwoSignupBodies : PostUsersNewP5(b, body) /\ UNCHANGED client
  \/ \E b \in DOMAIN sessions : DeleteSessions(b) /\ UNCHANGED client
  \/ \E o \in pending : DestroyDone(o, TRUE) /\ UNCHANGED client
  \/ \E b \in DOMAIN sessions, body \in AdvertBodies : PostNewAdvertP5(b, body) /\ UNCHANGED client

SpecTwo == InitTwo /\ [][NextTwo]_vars

----------------------------------------------------------------------------
(* Two people, each with a username and an email of their own, who sign up, *)
(* log in and log out in one browser.                                       *)

PeopleBodies ==
  { [name |-> "Ann", username |-> "ua", email |-> "a@a",
     password |-> "p", passwordConfirmation |-> "p"],
    [name |-> "Bob", username |-> "ub", email |-> "b@b",
     password |-> "p", passwordConfirmation |-> "p"] }
PeopleLogins == [email : {"a@a", "b@b"}, password : {"p", "q"}]

NextPeople ==
  \/ \E b \in DOMAIN sessions, body \in PeopleBodies : PostUsersNew(b, body) /\ UNCHANGED client
  \/ \E b \in DOMAIN sessions, body \in PeopleLogins : PostSessionsNew(b, body) /\ UNCHANGED client
  \/ \E o \in pending, ok \in BOOLEAN : UsersInsertDone(o, ok) /\ UNCHANGED client
  \/ \E o \in pending, ok \in BOOLEAN : UsersFindOneDone(o, ok) /\ UNCHANGED client
  \/ \E b \in DOMAIN sessions, body \in PeopleBodies : PostUsersNewP5(b, body) /\ UNCHANGED client
  \/ \E b \in DOMAIN sessions : DeleteSessions(b) /\ UNCHANGED client
  \/ \E o \in pending, ok \in BOOLEAN : DestroyDone(o, ok) /\ UNCHANGED client

SpecPeople == Init /\ [][NextPeople]_vars

----------------------------------------------------------------------------
(* The older revisions of the server kept in src/unnamed: part_002 (no      *)
(* session, no database), part_004 (sessions, no database) and part_006     *)
(* (the adverts collection, no session).  part_003 does not parse (its      *)
(* GET / handler closes one function more than it opens) and is no program. *)
(* They have a specification of their own, SpecOlder.                       *)

OlderRevisions == {"part_002", "part_004", "part_006"}
OlderUsernames == {"", "ua"}
OlderSignupBodies ==
  [name : Names, username : OlderUsernames, email : Emails,
   password : SignupPasswords, passwordConfirmation : Confirmations]
OlderAdvertBodies == [advertName : AdvertNames]

\* res.send(text)
Send(text) == [kind |-> "send", text |-> text]
\* the answer of express to a request no route matches
NotFound == [kind |-> "error", status |-> "404"]
\* res.render(view) and res.render(view, {}): no locals
NoLocals == <<>>

InitOlder ==
  /\ rev \in OlderRevisions
  /\ sessions = [b \in Browsers |-> EmptySession]
  /\ sess = NOBODY
  /\ users = <<>>
  /\ adverts = <<>>
  /\ pending = {}
  /\ last = Event("start", 0, NOBODY, "", NoBody, NoResp)
  /\ nreq = 0
  /\ crashed = FALSE
  /\ ClientInit(NoPage)

\* part_002: app.get('/')
GetRootP2(b) ==
  /\ Accepting("part_002")
  /\ nreq' = nreq + 1
  /\ last' = Event("handler", nreq + 1, b, "GET /", NoBody, Render("index", NoLocals))
  /\ UNCHANGED <<rev, sessions, sess, users, adverts, pending, crashed>>

\* part_002: app.post('/users/new') answers with the name it was sent
PostUsersNewP2(b, body) ==
  /\ Accepting("part_002")
  /\ nreq' = nreq + 1
  /\ last' = Event("handler", nreq + 1, b, "POST /users/new", body, Send(body.name))
  /\ UNCHANGED <<rev, sessions, sess, users, adverts, pending, crashed>>

\* part_004: app.get('/')
GetRootP4(b) ==
  /\ Accepting("part_004")
  /\ nreq' = nreq + 1
  /\ sess' = b
  /\ sessions' = [sessions EXCEPT ![b] = RootSession(sessions[b])]
  /\ last' = Event("handler", nreq + 1, b, "GET /", NoBody, Render("index", NoLocals))
  /\ UNCHANGED <<rev, users, adverts, pending, crashed>>

\* the session after POST /users/new of part_004: var email = req.body.username
SignupSessionP4(s, body) ==
  [s EXCEPT !.email = body.username, !.username = body.username]

\* part_004: app.post('/users/new')
PostUsersNewP4(b, body) ==
  LET s == SignupSessionP4(sessions[b], body)
  IN
  /\ Accepting("part_004")
  /\ nreq' = nreq + 1
  /\ sess' = b
  /\ sessions' = [sessions EXCEPT ![b] = s]
  /\ last' = Event("handler", nreq + 1, b, "POST /users/new", body,
                   Redirect(IF Truthy(s.email) THEN "/" ELSE "/user/new"))
  /\ UNCHANGED <<rev, users, adverts, pending, crashed>>

\* part_004: app.post('/session/new')
PostSessionNewP4(b, body) ==
  LET s == LoginSession(sessions[b], body)
  IN
  /\ Accepting("part_004")
  /\ nreq' = nreq + 1
  /\ sess' = b
  /\ sessions' = [sessions EXCEPT ![b] = s]
  /\ last' = Event("handler", nreq + 1, b, "POST /session/new", body,
                   Redirect(LoginRedirect(s)))
  /\ UNCHANGED <<rev, users, adverts, pending, crashed>>

\* part_004: POST /sessions/new matches no route
PostSessionsNewP4(b, body) ==
  /\ Accepting("part_004")
  /\ nreq' = nreq + 1
  /\ last' = Event("handler", nreq + 1, b, "POST /sessions/new", body, NotFound)
  /\ UNCHANGED <<rev, sessions, sess, users, adverts, pending, crashed>>

\* part_006: app.get('/')
GetRootP6(b) ==
  /\ Accepting("part_006")
  /\ nreq' = nreq + 1
  /\ pending' = pending \cup
       { [op |-> "adverts.find", rid |-> nreq + 1, browser |-> b] }
  /\ last' = Event("handler", nreq + 1, b, "GET /", NoBody, NoResp)
  /\ UNCHANGED <<rev, sessions, sess, users, adverts, crashed>>

\* part_006: callback of db.adverts.find in GET /: renders index without locals
AdvertsFindDoneP6(o, ok) ==
  /\ Complete(o) /\ o.op = "adverts.find" /\ rev = "part_006"
  /\ pending' = pending \ {o}
  /\ last' = Done("callback", o, ok, "GET /", NoBody, Render("index", NoLocals))
  /\ UNCHANGED <<rev, sessions, sess, users, adverts, nreq, crashed>>

\* the document POST /new-advert of part_006 builds
NewAdP6(body) == [name |-> body.advertName, booked |-> FALSE]

\* part_006: app.post('/new-advert')
PostNewAdvertP6(b, body) ==
  /\ Accepting("part_006")
  /\ nreq' = nreq + 1
  /\ pending' = pending \cup
       { [op |-> "adverts.insert", rid |-> nreq + 1, browser |-> b,
          doc |-> NewAdP6(body), body |-> body] }
  /\ last' = Event("handler", nreq + 1, b, "POST /new-advert", body, NoResp)
  /\ UNCHANGED <<rev, sessions, sess, users, adverts, crashed>>

NextOlder ==
  \/ \E b \in DOMAIN sessions : GetRootP2(b) /\ UNCHANGED client
  \/ \E b \in DOMAIN sessions, body \in OlderSignupBodies : PostUsersNewP2(b, body) /\ UNCHANGED client
  \/ \E b \in DOMAIN sessions : GetRootP4(b) /\ UNCHANGED client
  \/ \E b \in DOMAIN sessions, body \in OlderSignupBodies : PostUsersNewP4(b, body) /\ UNCHANGED client
  \/ \E b \in DOMAIN sessions, body \in LoginBodies : PostSessionNewP4(b, body) /\ UNCHANGED client
  \/ \E b \in DOMAIN sessions, body \in LoginBodies : PostSessionsNewP4(b, body) /\ UNCHANGED client
  \/ \E b \in DOMAIN sessions : GetRootP6(b) /\ UNCHANGED client
  \/ \E o \in pending, ok \in BOOLEAN : AdvertsFindDoneP6(o, ok) /\ UNCHANGED client
  \/ \E b \in DOMAIN sessions, body \in OlderAdvertBodies : PostNewAdvertP6(b, body) /\ UNCHANGED client
  \/ \E o \in pending, ok \in BOOLEAN : AdvertsInsertDone(o, ok) /\ UNCHANGED client

SpecOlder == InitOlder /\ [][NextOlder]_vars

----------------------------------------------------------------------------
(* src/app/js/advert.js: the browser-side Advert.  A script (the Jasmine    *)
(* specs, the interface) constructs Advert objects and calls their methods; *)
(* name() and isBooked() only read, so the steps are the constructor and    *)
(* book().                                                                  *)

\* function Advert(name)
Advert(n) == [_name |-> n, _isBooked |-> FALSE]

\* Advert.prototype.name
AdvertName(a) == a._name

\* Advert.prototype.isBooked
AdvertIsBooked(a) == a._isBooked

\* a faulty book(): it also forgets the name
AdvertBookRenames(a) == [_name |-> "", _isBooked |-> TRUE]

\* a faulty book(): it flips the flag
AdvertBookToggle(a) == [a EXCEPT !._isBooked = ~a._isBooked]

\* Advert.prototype.book
AdvertBook(a) == [a EXCEPT !._isBooked = TRUE]

server == <<rev, sessions, sess, users, adverts, pending, last, nreq, crashed>>

----------------------------------------------------------------------------
(* The List of the prototype (new List(), add, adverts), used by            *)
(* src/spec/ListSpec.js and by the interface scripts.  An element is a      *)
(* reference to an object: an index into objs.                              *)

\* new List()
List == <<>>

\* a faulty add(): it refuses an object the List already holds
ListAddOnce(l, x) == IF \E k \in 1..Len(l) : l[k] = x THEN l ELSE Append(l, x)

\* List.prototype.add
ListAdd(l, x) == Append(l, x)

\* List.prototype.adverts
ListAdverts(l) == l

\* the page-side variables a Jasmine spec does not touch
pageVars == <<page, field, html, click>>

\* new Advert(n)
NewAdvert(n) ==
  /\ page = NoPage
  /\ Len(objs) < MaxObjs
  /\ objs' = Append(objs, Advert(n))
  /\ given' = Append(given, n)
  /\ UNCHANGED <<list, added, pageVars, server>>

\* objs[i].book()
BookAdvert(i) ==
  /\ page = NoPage
  /\ i \in 1..Len(objs)
  /\ objs' = [objs EXCEPT ![i] = AdvertBook(objs[i])]
  /\ UNCHANGED <<given, list, added, pageVars, server>>

\* list.add(objs[i])
AddToList(i) ==
  /\ page = NoPage
  /\ i \in 1..Len(objs)
  /\ Len(added) < MaxList
  /\ list' = ListAdd(list, i)
  /\ added' = Append(added, i)
  /\ UNCHANGED <<objs, given, pageVars, server>>

NextClient ==
  \/ \E n \in ClientNames : NewAdvert(n)
  \/ \E i \in 1..Len(objs) : BookAdvert(i)
  \/ \E i \in 1..Len(objs) : AddToList(i)

SpecClient == Init /\ [][NextClient]_vars

----------------------------------------------------------------------------
(* The interface script of the prototype page, in three revisions:          *)
(* src/public/js/interface.js (add control only), src/src/interface.js      *)
(* lines 1-32 (the body of the add handler is commented out) and lines      *)
(* 34-59 (add and book controls).  One step is one thing the visitor does:  *)
(* typing a name, or activating a control, with the whole click handler.    *)

PublicPage == "public/js/interface.js"
InertPage == "src/interface.js:1-32"
BookPage == "src/interface.js:34-59"
ReadmePage == "README.md:95-122"
PageRevisions == {PublicPage, InertPage, BookPage, ReadmePage}

\* "" + boolean
BoolStr(b) == IF b THEN "true" ELSE "false"

\* the markup displayAdverts builds for one advert
Item(pg, a) ==
  IF pg = BookPage
  THEN "<li>" \o AdvertName(a) \o " - Booked: " \o BoolStr(AdvertIsBooked(a)) \o "</li>"
  ELSE IF pg = ReadmePage
  THEN "<li class='.advert1'>" \o AdvertName(a) \o " - Booked: "
       \o BoolStr(AdvertIsBooked(a)) \o "</li>"
  ELSE "<li class='advert1'><span class='advert1Name'>" \o AdvertName(a)
       \o "</span> - Booked: <span class='advert1Booked'>"
       \o BoolStr(AdvertIsBooked(a)) \o "</span></li>"

\* displayAdverts(): the string written into the listing container
RECURSIVE DisplayAdverts(_, _, _)
DisplayAdverts(pg, l, os) ==
  IF l = <<>> THEN ""
  ELSE Item(pg, os[Head(l)]) \o DisplayAdverts(pg, Tail(l), os)

InitPage ==
  /\ rev \in Revisions
  /\ sessions = [b \in Browsers |-> EmptySession]
  /\ sess = NOBODY
  /\ users = <<>>
  /\ adverts = <<>>
  /\ pending = {}
  /\ last = Event("start", 0, NOBODY, "", NoBody, NoResp)
  /\ nreq = 0
  /\ crashed = FALSE
  /\ \E pg \in PageRevisions : ClientInit(pg)

\* the visitor types n into the name field
TypeName(n) ==
  /\ page \in PageRevisions
  /\ field' = n
  /\ click' = [ctl |-> "type", threw |-> FALSE]
  /\ UNCHANGED <<objs, given, list, added, page, html, server>>

\* a faulty add handler: the cap is missing
AddClickUncapped ==
  /\ page \in {PublicPage, BookPage, ReadmePage}
  /\ click' = [ctl |-> "add", threw |-> FALSE]
  /\ IF Len(objs) >= MaxObjs
     THEN UNCHANGED <<objs, given, list, added, html>>
     ELSE /\ objs' = Append(objs, Advert(field))
          /\ given' = Append(given, field)
          /\ list' = ListAdd(list, Len(objs) + 1)
          /\ added' = Append(added, Len(objs) + 1)
          /\ html' = DisplayAdverts(page, ListAdverts(list'), objs')
  /\ UNCHANGED <<page, field, server>>

\* the click handler of the add control, capped at one advert
AddClick ==
  /\ page \in {PublicPage, BookPage, ReadmePage}
  /\ click' = [ctl |-> "add", threw |-> FALSE]
  /\ IF Len(ListAdverts(list)) >= 1
     THEN UNCHANGED <<objs, given, list, added, html>>
     ELSE /\ objs' = Append(objs, Advert(field))
          /\ given' = Append(given, field)
          /\ list' = ListAdd(list, Len(objs) + 1)
          /\ added' = Append(added, Len(objs) + 1)
          /\ html' = DisplayAdverts(page, ListAdverts(list'), objs')
  /\ UNCHANGED <<page, field, server>>

\* the click handler of the add control whose body is commented out
AddClickInert ==
  /\ page = InertPage
  /\ click' = [ctl |-> "add", threw |-> FALSE]
  /\ UNCHANGED <<objs, given, list, added, page, field, html, server>>

\* the click handler of the book control: list.adverts()[0].book() throws a
\* TypeError on an empty List, before displayAdverts() is reached
BookClick ==
  /\ page \in {InertPage, BookPage, ReadmePage}
  /\ IF ListAdverts(list) = <<>>
     THEN /\ click' = [ctl |-> "book", threw |-> TRUE]
          /\ UNCHANGED <<objs, html>>
     ELSE /\ click' = [ctl |-> "book", threw |-> FALSE]
          /\ objs' = [objs EXCEPT ![ListAdverts(list)[1]] =
                                    AdvertBook(objs[ListAdverts(list)[1]])]
          /\ html' = DisplayAdverts(page, ListAdverts(list), objs')
  /\ UNCHANGED <<given, list, added, page, field, server>>

NextPage ==
  \/ \E n \in ClientNames : TypeName(n)
  \/ AddClick
  \/ AddClickInert
  \/ BookClick

SpecPage == InitPage /\ [][NextPage]_vars

----------------------------------------------------------------------------
(* Vocabulary of the properties *)

IsHandler(route) == last.ev = "handler" /\ last.route = route

\* the operations the request of the step just taken has issued and not completed
OwnOps(kind) == {o \in pending : o.rid = last.rid /\ o.op = kind}

\* a persisted user with this email and this password
Registered(email, password) ==
  \E i \in 1..Len(users) : users[i].email = email /\ users[i].password = password

EmailRegistered(email) == \E i \in 1..Len(users) : users[i].email = email

SessionSetters == {"POST /users/new", "POST /sessions/new"}

----------------------------------------------------------------------------
\* C1: POST /sessions/new leaves the submitted email in the session only when a
\* persisted User has that email and the submitted password; after a login with
\* an unregistered email or a wrong password the session does not carry the
\* submitted email.
C1_LoginOnlyWhenRegistered ==
  (IsHandler("POST /sessions/new") /\ Truthy(last.body.email)
     /\ sessions[last.browser].email = last.body.email)
    => Registered(last.body.email, last.body.password)

\* C2: the redirect of POST /sessions/new follows the lookup: /users/new when no
\* User has the submitted email, /sessions/new when the password differs from
\* the stored one, / when it matches.
C2_LoginRedirectFollowsLookup ==
  IsHandler("POST /sessions/new")
    => last.resp = Redirect(IF ~EmailRegistered(last.body.email) THEN "/users/new"
                            ELSE IF ~Registered(last.body.email, last.body.password)
                                 THEN "/sessions/new"
                                 ELSE "/")

\* C3: POST /users/new inserts a User and sets the session's email/username only
\* when password equals passwordConfirmation; when they differ it issues no
\* insert into users.
C3_SignupNeedsConfirmation ==
  (IsHandler("POST /users/new")
     /\ last.body.password # last.body.passwordConfirmation)
    => OwnOps("users.insert") = {}

\* C4: a POST /users/new with a non-empty email and matching passwords issues
\* exactly one insert into users, of a record carrying the submitted name,
\* username, email and password, sets the session's email and username to the
\* submitted values and redirects to /.
C4_SignupInsertsSubmittedUser ==
  (IsHandler("POST /users/new") /\ Truthy(last.body.email)
     /\ last.body.password = last.body.passwordConfirmation)
    => /\ Cardinality(OwnOps("users.insert")) = 1
       /\ \A o \in OwnOps("users.insert") :
            /\ DOMAIN o.doc = {"name", "username", "email", "password"}
            /\ o.doc.name = last.body.name
            /\ o.doc.username = last.body.username
            /\ o.doc.email = last.body.email
            /\ o.doc.password = last.body.password
       /\ sessions[last.browser].email = last.body.email
       /\ sessions[last.browser].username = last.body.username
       /\ last.resp = Redirect("/")

\* C5: once DELETE /sessions has completed and left the session without email,
\* the session's email stays absent on the later requests of that browser until
\* a POST /users/new or POST /sessions/new sets it again.
C5_LoggedOutStaysLoggedOut ==
  [][ ( /\ last.ev = "callback" /\ last.route = "DELETE /sessions"
        /\ last.resp = Redirect("/")
        /\ sessions[last.browser] = EmptySession
        /\ ~(last'.ev = "handler" /\ last'.route \in SessionSetters) )
      => sessions'[last.browser].email = UNDEF ]_vars

\* C6: the welcome message GET / renders is the personalized one exactly when
\* the requesting session has an email, and the generic prompt exactly when it
\* has none (as for a browser that never signed up or logged in).
C6_WelcomeFollowsSession ==
  [][ (last'.ev = "handler" /\ last'.route = "GET /")
      => \A o \in pending' :
           (o.rid = last'.rid /\ "message" \in DOMAIN o)
             => o.message = (IF sessions[last'.browser].email # UNDEF
                             THEN "Welcome, " \o sessions[last'.browser].email
                             ELSE "Welcome, please log in.") ]_vars

\* C7: GET / has no side effects (no field of the session, no User, no Advert
\* changes), and session contents are changed only by POST /users/new,
\* POST /sessions/new and DELETE /sessions.
C7_GetRootHasNoSideEffects ==
  [][ /\ last'.route = "GET /"
          => (sessions' = sessions /\ users' = users /\ adverts' = adverts)
      /\ sessions' # sessions
          => (last'.ev = "handler"
              /\ last'.route \in SessionSetters \cup {"DELETE /sessions"}) ]_vars

\* C8: an Advert is inserted by POST /new-advert for the User the session's
\* email matches, with that User's identifier (as a string) as its user
\* reference; consequently every persisted Advert references the identifier of
\* a persisted User.
C8_EveryAdvertHasOwner ==
  \A i \in 1..Len(adverts) :
    /\ "userID" \in DOMAIN adverts[i]
    /\ \E j \in 1..Len(users) : adverts[i].userID = ToHexString(users[j]._id)

\* C9: a POST /new-advert from a session with no email, or with an email no
\* persisted User has, inserts no Advert and is answered with a redirect: the
\* handler issues no insert for it, and the lookup of its owner, when the
\* database reports no error, does not end in an exception.
C9_NewAdvertNeedsSession ==
  /\ (IsHandler("POST /new-advert") /\ ~Truthy(sessions[last.browser].email))
       => OwnOps("adverts.insert") = {}
  /\ (last.route = "POST /new-advert" /\ last.ev = "exception") => last.err

\* C10: no User or Advert is ever deleted, no field of a User changes, the only
\* Advert field that changes is booked, it changes only from false to true and
\* only in POST /book.
C10_RecordsOnlyGrowAndBook ==
  [][ /\ Len(users') >= Len(users)
      /\ \A i \in 1..Len(users) : users'[i] = users[i]
      /\ Len(adverts') >= Len(adverts)
      /\ \A i \in 1..Len(adverts) :
           /\ [adverts'[i] EXCEPT !.booked = adverts[i].booked] = adverts[i]
           /\ adverts[i].booked => adverts'[i].booked
           /\ adverts'[i].booked # adverts[i].booked => last'.route = "POST /book" ]_vars

\* C10's case: POST /book has just set booked on a stored advert
C10_Witness ==
  /\ last.ev = "db" /\ last.route = "POST /book" /\ ~last.err
  /\ Len(adverts) >= 1
  /\ \A i \in 1..Len(adverts) : adverts[i].booked

\* the stored adverts whose identifier, as the page prints it, is v
AdvertsWithId(v) == {i \in 1..Len(adverts) : ToHexString(adverts[i]._id) = v}

\* C11: POST /book carrying the identifier of an existing Advert is answered
\* with a redirect to / and issues one update for that identifier, whatever the
\* session holds; the handler itself changes no record, and the update, when it
\* completes without error, sets booked on that Advert and changes no other
\* Advert and no User.
C11_BookSetsBookedOnly ==
  [][ /\ ( /\ last'.ev = "handler" /\ last'.route = "POST /book"
           /\ AdvertsWithId(last'.body.bookBtn) # {} )
        => /\ last'.resp = Redirect("/")
           /\ \E o \in pending' \ pending :
                /\ pending' = pending \cup {o}
                /\ o.op = "adverts.update" /\ o.rid = last'.rid
                /\ ToHexString(o.id) = last'.body.bookBtn
           /\ adverts' = adverts /\ users' = users
      /\ ( last'.ev = "db" /\ last'.route = "POST /book" /\ ~last'.err )
        => \E o \in pending \ pending' :
             /\ o.op = "adverts.update" /\ o.rid = last'.rid
             /\ Len(adverts') = Len(adverts)
             /\ \A i \in 1..Len(adverts) :
                  adverts'[i] = IF adverts[i]._id = o.id
                                THEN [adverts[i] EXCEPT !.booked = TRUE]
                                ELSE adverts[i]
             /\ users' = users ]_vars

\* C11's case: a visitor whose session has no email has booked one of two
\* stored adverts, and the other one is still not booked
C11_Witness ==
  /\ last.ev = "db" /\ last.route = "POST /book" /\ ~last.err
  /\ ~Truthy(sessions[last.browser].email)
  /\ Len(adverts) = 2
  /\ \E i, j \in 1..2 : adverts[i].booked /\ ~adverts[j].booked

\* C12: an Advert is stored, then POST /book is sent with its identifier and
\* answered, then GET / arrives: unless a database call reported an error, the
\* page that GET / renders shows that Advert as booked.  The update of a POST
\* /book that was answered before the GET / arrived (smaller request number)
\* and has not reported an error is either applied or still in flight, so the
\* statement is about the updates still in flight when the page is rendered.
C12_BookedShownOnNextPage ==
  ( /\ last.ev = "callback" /\ last.route = "GET /" /\ ~last.err
    /\ last.resp.kind = "render" )
    => \A o \in pending :
         ( o.op = "adverts.update" /\ o.listed /\ o.rid < last.rid )
           => \A i \in 1..Len(last.resp.data.adverts) :
                last.resp.data.adverts[i]._id = o.id
                  => last.resp.data.adverts[i].booked

\* C13: when POST /new-advert is answered with its redirect after an insert
\* that reported no error, the stored adverts, which are what the following
\* GET / lists, contain an Advert with the submitted name and the submitted
\* description.
C13_NewAdvertListedWithDescription ==
  ( /\ last.ev = "callback" /\ last.route = "POST /new-advert"
    /\ last.resp = Redirect("/") /\ ~last.err )
    => \E i \in 1..Len(adverts) :
         /\ adverts[i].name = last.body.advertName
         /\ "description" \in DOMAIN adverts[i]
         /\ adverts[i].description = last.body.advertDescription

\* C14: a request is answered only when none of the database operations it
\* issued is still pending.
C14_ResponseAfterOwnCallbacks ==
  last.resp.kind # "none" => {o \in pending : o.rid = last.rid} = {}

\* C17: a database call that reports an error does not change what the request
\* receives: its callback does not throw, POST /new-advert still goes on to its
\* insert or sends its redirect, and the find of GET / still renders the index
\* page.
C17_DatabaseErrorSameResponse ==
  /\ [] ( last.err =>
            /\ last.ev # "exception"
            /\ last.route = "POST /new-advert" =>
                 \/ last.resp = Redirect("/")
                 \/ \E o \in pending : o.rid = last.rid /\ o.op = "adverts.insert" )
  /\ [][ \A o \in pending \ pending' :
           (o.op = "adverts.find" /\ last'.err) => last'.resp.kind = "render" ]_vars

\* C18: no database callback raises an exception that nothing catches (an
\* exception in the synchronous part of a handler is caught by express and
\* answered with status 500), and the server process is never ended by one.
C18_NoFatalFailure ==
  last.ev # "exception" /\ ~crashed

\* the other pending updates that book the advert update o books
RivalUpdates(o) ==
  {q \in pending : q.op = "adverts.update" /\ q.id = o.id /\ q.rid # o.rid}

\* C15: two POST /book for the same Advert, from any sessions, in flight at
\* once: each is answered with the redirect to / (there is no other answer to
\* a well-formed booking), and whichever update completes, while the other is
\* pending or after the other has been applied, leaves the Advert booked when
\* it succeeds, changes nothing when it fails, and changes no other record; an
\* Advert once booked is booked in every later state.
C15_ConcurrentBookings ==
  /\ [] ( (last.ev = "handler" /\ last.route = "POST /book")
            => last.resp = Redirect("/") )
  /\ [][ /\ \A o \in pending \ pending' :
              ( /\ o.op = "adverts.update"
                /\ \/ RivalUpdates(o) # {}
                   \/ \E i \in 1..Len(adverts) :
                        adverts[i]._id = o.id /\ adverts[i].booked )
                => /\ Len(adverts') = Len(adverts)
                   /\ \A i \in 1..Len(adverts) :
                        adverts'[i] = IF adverts[i]._id = o.id /\ ~last'.err
                                      THEN [adverts[i] EXCEPT !.booked = TRUE]
                                      ELSE adverts[i]
                   /\ users' = users
                   /\ sessions' = sessions
                   /\ last'.resp = NoResp
         /\ \A i \in 1..Len(adverts) : adverts[i].booked => adverts'[i].booked
     ]_vars

\* C15's case: two browsers have booked the same stored advert at once; one
\* update has just been applied (the advert is booked) and the other browser's
\* update is still in flight
C15_Witness ==
  /\ last.ev = "db" /\ last.route = "POST /book" /\ ~last.err
  /\ \E q \in pending :
       /\ q.op = "adverts.update" /\ q.listed
       /\ q.browser # last.browser /\ q.rid # last.rid
       /\ \E i \in 1..Len(adverts) : adverts[i]._id = q.id /\ adverts[i].booked

\* the session fields a handler assigns from the form it received
FormFields(route) ==
  IF route = "POST /users/new" THEN {"email", "username"}
  ELSE IF route = "POST /sessions/new" THEN {"email", "password"}
  ELSE {}

\* C16: with two browsers and every interleaving of their requests and of the
\* database callbacks, a step changes no session but that of its own request
\* (a callback changes none); the fields a form handler assigns are those of
\* its own form and the other fields keep the value the same session had; a
\* handler that assigns sess leaves it referring to its own request's session;
\* and the owner lookup of POST /new-advert is issued with the email of the
\* requester's own session.
C16_SessionsIsolated ==
  [][ /\ \A c \in DOMAIN sessions : c # last'.browser => sessions'[c] = sessions[c]
      /\ last'.ev # "handler" => sessions' = sessions /\ sess' = sess
      /\ last'.ev = "handler" =>
           /\ sess' \in {sess, last'.browser}
           /\ \A f \in FormFields(last'.route) :
                sessions'[last'.browser][f] = last'.body[f]
           /\ last'.route \in SessionSetters =>
                \A f \in DOMAIN EmptySession \ FormFields(last'.route) :
                  sessions'[last'.browser][f] = sessions[last'.browser][f]
      /\ (last'.ev = "handler" /\ last'.route = "POST /new-advert" /\ rev = "app.js") =>
           /\ sess' = last'.browser
           /\ \E o \in pending' \ pending :
                /\ o.op = "users.findOne.owner" /\ o.rid = last'.rid
                /\ o.email = sessions[last'.browser].email
    ]_vars

\* C16's case: the owner lookup of one browser's POST /new-advert has completed
\* and issued the insert for the user with that browser's email, while sess
\* refers to the session of the other browser, which holds another email
C16_Witness ==
  /\ last.ev = "callback" /\ last.route = "POST /new-advert"
  /\ sess \in DOMAIN sessions /\ sess # last.browser
  /\ Truthy(sessions[sess].email)
  /\ sessions[sess].email # sessions[last.browser].email
  /\ \E o \in pending :
       /\ o.op = "adverts.insert" /\ o.rid = last.rid
       /\ o.email = sessions[last.browser].email
       /\ o.user.email = o.email

\* C19: every Advert object reports the name it was constructed with, whatever
\* has been called on it since, and a newly constructed one is not booked.
C19_NameKeptNotBookedAtFirst ==
  /\ [] ( /\ Len(objs) = Len(given)
          /\ \A i \in 1..Len(objs) : AdvertName(objs[i]) = given[i] )
  /\ [][ \A i \in 1..Len(objs') :
           i > Len(objs) => ~AdvertIsBooked(objs'[i]) /\ AdvertName(objs'[i]) = given'[i]
     ]_vars

\* C19's case: an Advert constructed with a non-empty name has been booked,
\* next to one that has not
C19_Witness ==
  \E i, j \in 1..Len(objs) :
    /\ given[i] = "Cosy flat" /\ AdvertIsBooked(objs[i])
    /\ AdvertName(objs[i]) = "Cosy flat"
    /\ ~AdvertIsBooked(objs[j])

\* C20: book() called on any Advert object, booked or not, leaves it booked,
\* and an Advert that is booked is booked after every step, further book()
\* calls included.
C20_BookedForGood ==
  /\ [] ( \A i \in 1..Len(objs) : AdvertIsBooked(AdvertBook(objs[i])) )
  /\ [][ \A i \in 1..Len(objs) :
           AdvertIsBooked(objs[i]) => AdvertIsBooked(objs'[i]) ]_vars

\* C20's case: every constructed Advert has been booked
C20_Witness ==
  /\ Len(objs) = MaxObjs
  /\ \A i \in 1..Len(objs) : AdvertIsBooked(objs[i])

\* C21: a new List has no adverts; adverts() is always exactly the arguments
\* of the add() calls made so far, in call order (an object added twice is
\* there twice); every add() appends its argument at the end, and the length
\* never decreases.
C21_ListKeepsCallOrder ==
  /\ [] ( /\ ListAdverts(List) = <<>>
          /\ ListAdverts(list) = added )
  /\ [][ /\ Len(ListAdverts(list')) >= Len(ListAdverts(list))
         /\ added' # added =>
              ListAdverts(list') = Append(ListAdverts(list), added'[Len(added')])
     ]_vars

\* C21's case: three add() calls, two of them with the same object
C21_Witness ==
  /\ Len(ListAdverts(list)) = 3
  /\ ListAdverts(list)[1] = ListAdverts(list)[3]
  /\ ListAdverts(list)[2] # ListAdverts(list)[1]

\* the revisions of the interface script whose add handler is capped
CappedPages == {PublicPage, BookPage, ReadmePage}

\* C22: in the capped revisions of the interface script the List never holds
\* more than one advert, and activating the add control when it holds one
\* leaves the List, the advert and the listing as they were.
C22_CappedAtOne ==
  /\ [] ( page \in CappedPages => Len(ListAdverts(list)) <= 1 )
  /\ [][ ( /\ page \in CappedPages /\ click'.ctl = "add"
           /\ Len(ListAdverts(list)) = 1 )
           => /\ list' = list /\ added' = added
              /\ objs' = objs /\ html' = html ]_vars

\* C22's case: the add control was activated with another name typed in while
\* the List held an advert, and the List still holds that one advert
C22_Witness ==
  /\ page \in CappedPages /\ click.ctl = "add"
  /\ Len(ListAdverts(list)) = 1
  /\ field # AdvertName(objs[ListAdverts(list)[1]])

\* C23: after the book control was activated, its handler has raised no
\* error, and when the List is not empty its first advert is booked and the
\* listing shows the List as it is now.
C23_BookControlNeverThrows ==
  click.ctl = "book" =>
    /\ ~click.threw
    /\ ListAdverts(list) # <<>> =>
         /\ AdvertIsBooked(objs[ListAdverts(list)[1]])
         /\ html = DisplayAdverts(page, ListAdverts(list), objs)

\* the listing shows the List as it is now
ListingCurrent == html = DisplayAdverts(page, ListAdverts(list), objs)

\* C24: after every activation of the add or the book control the listing
\* container holds the rendering of the List's current state, and when the
\* book control is activated right after the add control, the listing is one
\* entry whose booked indicator reads "true".
C24_ListingShowsList ==
  [][ /\ click'.ctl \in {"add", "book"} => ListingCurrent'
      /\ (click.ctl = "add" /\ click'.ctl = "book") =>
           \E n \in ClientNames :
             html' = Item(page, [_name |-> n, _isBooked |-> TRUE]) ]_vars

\* C25: a POST /users/new whose email is that of a stored User is answered with
\* the redirect to / and issues its insert all the same, in the handler itself
\* (no lookup stands between the request and the insert); and an insert that
\* reports no error adds its record whatever the collection already holds.
C25_DuplicateEmailInserted ==
  /\ [] ( ( /\ IsHandler("POST /users/new") /\ rev = "app.js"
            /\ Truthy(last.body.email) /\ EmailRegistered(last.body.email) )
            => /\ last.resp = Redirect("/")
               /\ \E o \in OwnOps("users.insert") :
                    /\ OwnOps("users.insert") = {o}
                    /\ o.doc.email = last.body.email )
  /\ [][ \A o \in pending \ pending' :
           (o.op = "users.insert" /\ ~last'.err)
             => /\ Len(users') = Len(users) + 1
                /\ users'[Len(users')].email = o.doc.email
                /\ \A i \in 1..Len(users) : users'[i] = users[i] ]_vars

\* C25's case: two stored users with the same email
C25_Witness ==
  \E i, j \in 1..Len(users) : i # j /\ users[i].email = users[j].email

\* C26: whenever a session holds an email, a stored User has that email.
C26_SessionEmailIsRegistered ==
  \A b \in DOMAIN sessions :
    Truthy(sessions[b].email) => EmailRegistered(sessions[b].email)

\* the paths for which the application defines a GET route
GetRoutes == {"/", "/users/new", "/sessions/new", "/new-advert"}

\* C27: every redirect a handler or callback sends targets a path with a GET
\* route.
C27_RedirectsToDefinedRoutes ==
  last.resp.kind = "redirect" => last.resp.to \in GetRoutes

\* C28: whenever a session holds a username together with the email and the
\* password of a stored User (a login that names a real user), a stored User
\* has that username and that email: after a signup as one user and a login
\* as another the session does not mix the two.
C28_UsernameAndEmailOfOneUser ==
  \A b \in DOMAIN sessions :
    ( /\ Truthy(sessions[b].username) /\ Truthy(sessions[b].email)
      /\ Registered(sessions[b].email, sessions[b].password) )
      => \E i \in 1..Len(users) :
           /\ users[i].username = sessions[b].username
           /\ users[i].email = sessions[b].email

\* C29: a POST /book whose value is the identifier of no stored Advert (an
\* identifier that matches nothing, an absent or a malformed value) is
\* answered with the redirect to /, and neither its handler nor its update
\* changes or creates any Advert or User.
C29_UnknownBookingRedirects ==
  /\ [] ( (IsHandler("POST /book") /\ AdvertsWithId(last.body.bookBtn) = {})
            => last.resp = Redirect("/") )
  /\ [][ /\ (last'.ev = "handler" /\ last'.route = "POST /book")
              => adverts' = adverts /\ users' = users
         /\ \A o \in pending \ pending' :
              (o.op = "adverts.update" /\ ~IsListed(o.id))
                => adverts' = adverts /\ users' = users ]_vars

====
